---- MODULE Spec2Model ----
(***************************************************************************)
(* Agent selection and termination strategies of the disease surveillance  *)
(* backend (src/backend/agents/agent_strategies.py).                       *)
(*                                                                         *)
(* SurveillanceSelectionStrategy holds agent_sequence (the stored          *)
(* Pipeline); SurveillanceTerminationStrategy holds iteration_count,       *)
(* max_iterations and terminal_agents.  An agent object is modelled by its *)
(* name, a message by its content (a string), the agents list by the set   *)
(* of the names in it (the code turns it into a dict keyed by name).       *)
(*                                                                         *)
(* Strings are TLA+ strings; startswith, `in` and lower() are computed     *)
(* character by character.  TLA+ string literals are ASCII, so the four    *)
(* non-ASCII characters of the literal at agent_strategies.py:202 and the  *)
(* characters related to them are written with these stand-ins:            *)
(*    #  U+00F0     $  U+0178     %  U+00FF (the lower case of U+0178)     *)
(*    ^  U+201C     &  U+201E     @  U+1F4C4 (the page emoji)              *)
(***************************************************************************)
EXTENDS Integers, Sequences, FiniteSets, TLC

VARIABLES
    agents,           \* the agents argument of the calls: the set of agent names
    history,          \* the history argument of the last call: a sequence of contents
    agent_sequence,   \* SurveillanceSelectionStrategy.agent_sequence
    selected,         \* the value returned by the last call of next
    iteration_count,  \* SurveillanceTerminationStrategy.iteration_count
    max_iterations,   \* SurveillanceTerminationStrategy.max_iterations
    acting,           \* the agent argument of the last call of should_terminate
    terminate,        \* the value returned by the last call of should_terminate
    op,               \* the last operation called
    prev_sequence,    \* agent_sequence as it was when the last call of next began
    calls,            \* should_terminate calls made since construction or reset()
    pc,               \* the driver loop's position
    turns,            \* agent turns the driver loop has produced since it started
    fresh,            \* the running loop started with a new or reset Terminator
    invoked,          \* the agents the driver loop has invoked since the last query
    histories,        \* of each session: its history, a sequence of contents
    selectors,        \* of each Selector object: its agent_sequence
    terminators,      \* of each Terminator object: its iteration_count
    returned,         \* of each session: the values its last calls returned
    alone,            \* of each session: what it holds and returns when run alone
    caller            \* the session that made the last call

vars == <<agents, history, agent_sequence, selected, iteration_count, max_iterations,
          acting, terminate, op, prev_sequence, calls, pc, turns, fresh, invoked,
          histories, selectors, terminators, returned, alone, caller>>

selectorVars == <<agent_sequence, selected, prev_sequence>>
terminatorVars == <<iteration_count, max_iterations, acting, terminate, calls>>
driverVars == <<pc, turns, fresh, invoked>>
sessionVars == <<histories, selectors, terminators, returned, alone, caller>>

\* No session exists.
NoSessions ==
    /\ histories = <<>>
    /\ selectors = <<>>
    /\ terminators = <<>>
    /\ returned = <<>>
    /\ alone = <<>>
    /\ caller = 0

-----------------------------------------------------------------------------
(* Strings *)

\* Python's None (no agent).
None == "None"

\* s.startswith(p)
startswith(s, p) == Len(s) >= Len(p) /\ SubSeq(s, 1, Len(p)) = p

UpperChars == "ABCDEFGHIJKLMNOPQRSTUVWXYZ$"
LowerChars == "abcdefghijklmnopqrstuvwxyz%"

\* str.lower() on one character
lower_char(c) ==
    IF \E i \in 1..Len(UpperChars) : SubSeq(UpperChars, i, i) = c
    THEN LET i == CHOOSE j \in 1..Len(UpperChars) : SubSeq(UpperChars, j, j) = c
         IN SubSeq(LowerChars, i, i)
    ELSE c

RECURSIVE lower_str(_)
\* str.lower(), character by character
lower_str(s) == IF s = "" THEN "" ELSE lower_char(SubSeq(s, 1, 1)) \o lower_str(Tail(s))

\* sub in s for strings, position by position
contains_str(s, sub) ==
    \E i \in 1..(Len(s) - Len(sub) + 1) : SubSeq(s, i, i + Len(sub) - 1) = sub

-----------------------------------------------------------------------------
(* The agents *)

AgentNames == {"DATA_COLLECTION_AGENT", "ANOMALY_DETECTION_AGENT", "PREDICTION_AGENT",
               "ALERT_AGENT", "REPORTING_AGENT", "ASSISTANT_AGENT"}

\* f"{name} >"
marker(name) == name \o " >"

\* agent_map.get(name) giving the name whether or not agent_map holds it.
agent_map_get_unchecked(agent_map, name) == name

\* agent_map.get(name): the agent of that name, or None
agent_map_get(agent_map, name) == IF name \in agent_map THEN name ELSE None

-----------------------------------------------------------------------------
(* The literals of agent_strategies.py *)

anomaly_keywords == {"anomaly", "anomalies", "unusual", "pattern", "detect", "abnormal", "spike"}
prediction_keywords == {"predict", "forecast", "spread", "outbreak", "projection", "future", "weeks"}
alert_keywords == {"alert", "warning", "notify", "notification", "urgent", "emergency"}
data_keywords == {"data", "collect", "sources", "monitor", "track", "gather"}
report_keywords == {"report", "summary", "comprehensive", "analysis", "assessment"}
breadth_keywords == {"full", "complete", "comprehensive", "all"}

comprehensive_sequence == <<"DATA_COLLECTION_AGENT", "ANOMALY_DETECTION_AGENT",
                            "PREDICTION_AGENT", "ALERT_AGENT", "REPORTING_AGENT">>
prediction_sequence == <<"DATA_COLLECTION_AGENT", "ANOMALY_DETECTION_AGENT",
                         "PREDICTION_AGENT", "REPORTING_AGENT">>
anomaly_sequence == <<"DATA_COLLECTION_AGENT", "ANOMALY_DETECTION_AGENT", "REPORTING_AGENT">>
data_sequence == <<"DATA_COLLECTION_AGENT", "REPORTING_AGENT">>
alert_sequence == <<"DATA_COLLECTION_AGENT", "ANOMALY_DETECTION_AGENT",
                    "PREDICTION_AGENT", "ALERT_AGENT", "REPORTING_AGENT">>

DefaultMaxIterations == 10

terminal_agents == {"REPORTING_AGENT", "ASSISTANT_AGENT"}

completion_indicators == {"report generated successfully", "analysis complete",
                          "assessment complete", "#$^&", "download url", "report id"}

-----------------------------------------------------------------------------
(* The texts of the model, and str.lower() and `in` computed once for each *)

\* What an agent says after its marker.
AgentBodies ==
    {" 12 sources polled",
     " Report generated successfully. Download URL: http://x/r1",
     " ANALYSIS COMPLETE", " Assessment complete.", " Report ID: 42",
     " see #$^&", " see @", " analysis incomplete, full forecast pending"}

\* Contents without an agent marker at their start.
UserQueries ==
    {"", "hello there",
     "Can you give a full comprehensive outbreak forecast report?",
     "COMPLETE FORECAST", "Comprehensive", "show all hospitals", "full data please",
     "give me a summary", "predict next month", "open the spreadsheet",
     "predict anomalies", "any unusual spike?", "detect problems in data and alert me",
     "monitor and alert", "send an urgent alert", "Analysis complete",
     "ask REPORTING_AGENT > for it", "PREDICTION_AGENT>no space",
     "TRIAGE_AGENT > hello there"}

\* Every content a turn of the model can have.
Contents == UserQueries \cup {marker(n) \o b : n \in AgentNames, b \in AgentBodies}

\* Every word the code looks for in a lowercased content.
SearchedWords == anomaly_keywords \cup prediction_keywords \cup alert_keywords
                 \cup data_keywords \cup report_keywords \cup breadth_keywords
                 \cup completion_indicators

lower_of == [s \in Contents |-> lower_str(s)]

\* str.lower()
lower(s) == IF s \in Contents THEN lower_of[s] ELSE lower_str(s)

found_in == [t \in {lower_of[s] : s \in Contents} |->
                {word \in SearchedWords : contains_str(t, word)}]

\* sub in s, for strings
contains(s, sub) ==
    IF s \in DOMAIN found_in /\ sub \in SearchedWords
    THEN sub \in found_in[s]
    ELSE contains_str(s, sub)

\* any(word in text for word in words)
any_in(words, text) == \E word \in words : contains(text, word)

-----------------------------------------------------------------------------
(* SurveillanceSelectionStrategy *)

\* The value a method returns and the agent_sequence it leaves.
Out(ret, seq) == [ret |-> ret, agent_sequence |-> seq]

\* _route_initial_query testing the prediction keywords before the breadth words.
_route_initial_query_prediction_first(query, agent_map, seq) ==
    LET query_lower == lower(query) IN
    IF any_in(prediction_keywords, query_lower)
    THEN Out(agent_map_get(agent_map, "DATA_COLLECTION_AGENT"), prediction_sequence)
    ELSE IF /\ any_in(breadth_keywords, query_lower)
            /\ any_in(prediction_keywords \cup report_keywords, query_lower)
    THEN Out(agent_map_get(agent_map, "DATA_COLLECTION_AGENT"), comprehensive_sequence)
    ELSE IF any_in(anomaly_keywords, query_lower)
    THEN Out(agent_map_get(agent_map, "DATA_COLLECTION_AGENT"), anomaly_sequence)
    ELSE IF any_in(data_keywords, query_lower)
    THEN Out(agent_map_get(agent_map, "DATA_COLLECTION_AGENT"), data_sequence)
    ELSE IF any_in(alert_keywords, query_lower)
    THEN Out(agent_map_get(agent_map, "DATA_COLLECTION_AGENT"), alert_sequence)
    ELSE Out(agent_map_get(agent_map, "ASSISTANT_AGENT"), seq)

\* _route_initial_query testing the alert keywords before the data keywords.
_route_initial_query_alert_before_data(query, agent_map, seq) ==
    LET query_lower == lower(query) IN
    IF /\ any_in(breadth_keywords, query_lower)
       /\ any_in(prediction_keywords \cup report_keywords, query_lower)
    THEN Out(agent_map_get(agent_map, "DATA_COLLECTION_AGENT"), comprehensive_sequence)
    ELSE IF any_in(prediction_keywords, query_lower)
    THEN Out(agent_map_get(agent_map, "DATA_COLLECTION_AGENT"), prediction_sequence)
    ELSE IF any_in(anomaly_keywords, query_lower)
    THEN Out(agent_map_get(agent_map, "DATA_COLLECTION_AGENT"), anomaly_sequence)
    ELSE IF any_in(alert_keywords, query_lower)
    THEN Out(agent_map_get(agent_map, "DATA_COLLECTION_AGENT"), alert_sequence)
    ELSE IF any_in(data_keywords, query_lower)
    THEN Out(agent_map_get(agent_map, "DATA_COLLECTION_AGENT"), data_sequence)
    ELSE Out(agent_map_get(agent_map, "ASSISTANT_AGENT"), seq)

\* _route_initial_query storing a one-agent list in the fallback branch.
_route_initial_query_store_assistant(query, agent_map, seq) ==
    LET query_lower == lower(query) IN
    IF /\ any_in(breadth_keywords, query_lower)
       /\ any_in(prediction_keywords \cup report_keywords, query_lower)
    THEN Out(agent_map_get(agent_map, "DATA_COLLECTION_AGENT"), comprehensive_sequence)
    ELSE IF any_in(prediction_keywords, query_lower)
    THEN Out(agent_map_get(agent_map, "DATA_COLLECTION_AGENT"), prediction_sequence)
    ELSE IF any_in(anomaly_keywords, query_lower)
    THEN Out(agent_map_get(agent_map, "DATA_COLLECTION_AGENT"), anomaly_sequence)
    ELSE IF any_in(data_keywords, query_lower)
    THEN Out(agent_map_get(agent_map, "DATA_COLLECTION_AGENT"), data_sequence)
    ELSE IF any_in(alert_keywords, query_lower)
    THEN Out(agent_map_get(agent_map, "DATA_COLLECTION_AGENT"), alert_sequence)
    ELSE Out(agent_map_get(agent_map, "ASSISTANT_AGENT"), <<"ASSISTANT_AGENT">>)

\* _route_initial_query(query, agent_map), called with agent_sequence = seq
_route_initial_query(query, agent_map, seq) ==
    LET query_lower == lower(query) IN
    IF /\ any_in(breadth_keywords, query_lower)
       /\ any_in(prediction_keywords \cup report_keywords, query_lower)
    THEN Out(agent_map_get(agent_map, "DATA_COLLECTION_AGENT"), comprehensive_sequence)
    ELSE IF any_in(prediction_keywords, query_lower)
    THEN Out(agent_map_get(agent_map, "DATA_COLLECTION_AGENT"), prediction_sequence)
    ELSE IF any_in(anomaly_keywords, query_lower)
    THEN Out(agent_map_get(agent_map, "DATA_COLLECTION_AGENT"), anomaly_sequence)
    ELSE IF any_in(data_keywords, query_lower)
    THEN Out(agent_map_get(agent_map, "DATA_COLLECTION_AGENT"), data_sequence)
    ELSE IF any_in(alert_keywords, query_lower)
    THEN Out(agent_map_get(agent_map, "DATA_COLLECTION_AGENT"), alert_sequence)
    ELSE Out(agent_map_get(agent_map, "ASSISTANT_AGENT"), seq)

\* list.index(x): the first position of x in seq (0-based), for x in seq
index(seq, x) == (CHOOSE i \in 1..Len(seq) :
                     seq[i] = x /\ \A j \in 1..(i - 1) : seq[j] # x) - 1

\* x in seq, for lists
in_list(seq, x) == \E i \in 1..Len(seq) : seq[i] = x

\* _route_agent_response returning the element at current_index, not the one after it.
_route_agent_response_stay(response, agent_map, hist, seq) ==
    LET named == {name \in agent_map : startswith(response, marker(name))}
        current_agent == IF named = {} THEN None ELSE CHOOSE name \in named : TRUE
    IN  IF current_agent = None \/ seq = <<>>
        THEN Out(None, seq)
        ELSE IF ~in_list(seq, current_agent)
        THEN Out(None, seq)
        ELSE LET current_index == index(seq, current_agent) IN
             IF current_index + 1 < Len(seq)
             THEN Out(agent_map_get(agent_map, seq[current_index + 1]), seq)
             ELSE Out(None, seq)

\* _route_agent_response starting the sequence again when the agent is not in it.
_route_agent_response_restart(response, agent_map, hist, seq) ==
    LET named == {name \in agent_map : startswith(response, marker(name))}
        current_agent == IF named = {} THEN None ELSE CHOOSE name \in named : TRUE
    IN  IF current_agent = None \/ seq = <<>>
        THEN Out(None, seq)
        ELSE IF ~in_list(seq, current_agent)
        THEN Out(agent_map_get(agent_map, seq[1]), seq)
        ELSE LET current_index == index(seq, current_agent) IN
             IF current_index + 1 < Len(seq)
             THEN Out(agent_map_get(agent_map, seq[(current_index + 1) + 1]), seq)
             ELSE Out(None, seq)

\* _route_agent_response emptying agent_sequence when the sequence is complete.
_route_agent_response_clear_when_done(response, agent_map, hist, seq) ==
    LET named == {name \in agent_map : startswith(response, marker(name))}
        current_agent == IF named = {} THEN None ELSE CHOOSE name \in named : TRUE
    IN  IF current_agent = None \/ seq = <<>>
        THEN Out(None, seq)
        ELSE IF ~in_list(seq, current_agent)
        THEN Out(None, seq)
        ELSE LET current_index == index(seq, current_agent) IN
             IF current_index + 1 < Len(seq)
             THEN Out(agent_map_get(agent_map, seq[(current_index + 1) + 1]), seq)
             ELSE Out(None, <<>>)

\* _route_agent_response going on to the first later agent that agent_map holds.
_route_agent_response_skip_missing(response, agent_map, hist, seq) ==
    LET named == {name \in agent_map : startswith(response, marker(name))}
        current_agent == IF named = {} THEN None ELSE CHOOSE name \in named : TRUE
    IN  IF current_agent = None \/ seq = <<>>
        THEN Out(None, seq)
        ELSE IF ~in_list(seq, current_agent)
        THEN Out(None, seq)
        ELSE LET current_index == index(seq, current_agent)
                 later == {j \in (current_index + 2)..Len(seq) : seq[j] \in agent_map}
             IN  IF later # {}
                 THEN Out(seq[CHOOSE j \in later : \A k \in later : j <= k], seq)
                 ELSE Out(None, seq)

\* _route_agent_response taking the position in the sequence from the number of
\* agent turns in the history.
_route_agent_response_by_position(response, agent_map, hist, seq) ==
    LET agent_turns == {i \in 1..Len(hist) :
                           \E name \in agent_map : startswith(hist[i], marker(name))}
        position == Cardinality(agent_turns)
    IN  IF seq = <<>>
        THEN Out(None, seq)
        ELSE IF position < Len(seq)
        THEN Out(agent_map_get(agent_map, seq[position + 1]), seq)
        ELSE Out(None, seq)

\* _route_agent_response(response, agent_map, history), called with agent_sequence = seq
_route_agent_response(response, agent_map, hist, seq) ==
    LET named == {name \in agent_map : startswith(response, marker(name))}
        current_agent == IF named = {} THEN None ELSE CHOOSE name \in named : TRUE
    IN  IF current_agent = None \/ seq = <<>>
        THEN Out(None, seq)
        ELSE IF ~in_list(seq, current_agent)
        THEN Out(None, seq)
        ELSE LET current_index == index(seq, current_agent) IN
             IF current_index + 1 < Len(seq)
             THEN Out(agent_map_get(agent_map, seq[(current_index + 1) + 1]), seq)
             ELSE Out(None, seq)

\* is_user_message looking for the marker anywhere in the content.
is_user_message_anywhere(message_content, agent_map) ==
    ~ \E name \in agent_map : contains_str(message_content, marker(name))

\* is_user_message: no agent prefix
is_user_message(message_content, agent_map) ==
    ~ \E name \in agent_map : startswith(message_content, marker(name))

\* next reading an empty history as an empty user query.
next_empty_as_query(agent_list, hist, seq) ==
    LET message_content == IF hist = <<>> THEN "" ELSE hist[Len(hist)]
        agent_map == agent_list
    IN  IF is_user_message(message_content, agent_map)
        THEN _route_initial_query(message_content, agent_map, seq)
        ELSE _route_agent_response(message_content, agent_map, hist, seq)

\* next(agents, history), called with agent_sequence = seq
next(agent_list, hist, seq) ==
    IF hist = <<>>
    THEN Out(None, seq)
    ELSE LET message_content == hist[Len(hist)]
             agent_map == agent_list
         IN  IF is_user_message(message_content, agent_map)
             THEN _route_initial_query(message_content, agent_map, seq)
             ELSE _route_agent_response(message_content, agent_map, hist, seq)

-----------------------------------------------------------------------------
(* SurveillanceTerminationStrategy *)

\* The value should_terminate returns and the iteration_count it leaves.
TOut(ret, count) == [ret |-> ret, iteration_count |-> count]

\* should_terminate without the increment of iteration_count.
should_terminate_no_increment(agent, hist, count, max) ==
    IF count >= max
    THEN TOut(TRUE, count)
    ELSE IF agent \in terminal_agents
    THEN TOut(TRUE, count)
    ELSE IF hist # <<>> /\ any_in(completion_indicators, lower(hist[Len(hist)]))
    THEN TOut(TRUE, count)
    ELSE TOut(FALSE, count)

\* should_terminate comparing with > where the code has >=.
should_terminate_gt(agent, hist, count, max) ==
    LET incremented == count + 1 IN
    IF incremented > max
    THEN TOut(TRUE, incremented)
    ELSE IF agent \in terminal_agents
    THEN TOut(TRUE, incremented)
    ELSE IF hist # <<>> /\ any_in(completion_indicators, lower(hist[Len(hist)]))
    THEN TOut(TRUE, incremented)
    ELSE TOut(FALSE, incremented)

\* should_terminate with REPORTING_AGENT as the only terminal agent.
should_terminate_reporting_only(agent, hist, count, max) ==
    LET incremented == count + 1 IN
    IF incremented >= max
    THEN TOut(TRUE, incremented)
    ELSE IF agent = "REPORTING_AGENT"
    THEN TOut(TRUE, incremented)
    ELSE IF hist # <<>> /\ any_in(completion_indicators, lower(hist[Len(hist)]))
    THEN TOut(TRUE, incremented)
    ELSE TOut(FALSE, incremented)

\* should_terminate looking for the indicators without lower().
should_terminate_case_sensitive(agent, hist, count, max) ==
    LET incremented == count + 1 IN
    IF incremented >= max
    THEN TOut(TRUE, incremented)
    ELSE IF agent \in terminal_agents
    THEN TOut(TRUE, incremented)
    ELSE IF hist # <<>> /\ \E indicator \in completion_indicators :
                               contains_str(hist[Len(hist)], indicator)
    THEN TOut(TRUE, incremented)
    ELSE TOut(FALSE, incremented)

\* should_terminate looking for the indicators in the content as written too, so
\* that the indicator of line 202 is found.
should_terminate_glyph_matches(agent, hist, count, max) ==
    LET incremented == count + 1 IN
    IF incremented >= max
    THEN TOut(TRUE, incremented)
    ELSE IF agent \in terminal_agents
    THEN TOut(TRUE, incremented)
    ELSE IF hist # <<>> /\ (\/ any_in(completion_indicators, lower(hist[Len(hist)]))
                            \/ \E indicator \in completion_indicators :
                                   contains_str(hist[Len(hist)], indicator))
    THEN TOut(TRUE, incremented)
    ELSE TOut(FALSE, incremented)

\* should_terminate counting no further once the cap is reached.
should_terminate_saturate(agent, hist, count, max) ==
    LET incremented == IF count >= max THEN count ELSE count + 1 IN
    IF incremented >= max
    THEN TOut(TRUE, incremented)
    ELSE IF agent \in terminal_agents
    THEN TOut(TRUE, incremented)
    ELSE IF hist # <<>> /\ any_in(completion_indicators, lower(hist[Len(hist)]))
    THEN TOut(TRUE, incremented)
    ELSE TOut(FALSE, incremented)

\* should_terminate comparing with == where the code has >=.
should_terminate_eq(agent, hist, count, max) ==
    LET incremented == count + 1 IN
    IF incremented = max
    THEN TOut(TRUE, incremented)
    ELSE IF agent \in terminal_agents
    THEN TOut(TRUE, incremented)
    ELSE IF hist # <<>> /\ any_in(completion_indicators, lower(hist[Len(hist)]))
    THEN TOut(TRUE, incremented)
    ELSE TOut(FALSE, incremented)

\* should_terminate(agent, history), called with iteration_count = count
should_terminate(agent, hist, count, max) ==
    LET incremented == count + 1 IN
    IF incremented >= max
    THEN TOut(TRUE, incremented)
    ELSE IF agent \in terminal_agents
    THEN TOut(TRUE, incremented)
    ELSE IF hist # <<>> /\ any_in(completion_indicators, lower(hist[Len(hist)]))
    THEN TOut(TRUE, incremented)
    ELSE TOut(FALSE, incremented)

\* reset() setting the count to 1, as if the next turn were already counted.
reset_to_one(count) == 1

\* reset()
reset(count) == 0

-----------------------------------------------------------------------------
(* Inputs *)

\* How many earlier turns a history holds before its last turn.
MaxEarlier == 1
\* How many calls of should_terminate are made after the cap is reached.
MaxExtraCalls == 2

\* The agents lists: every agent, every agent but one, no agent.
Registries == {AgentNames} \cup {AgentNames \ {a} : a \in AgentNames} \cup {{}}

\* The last turns given to next.
SelectorContents ==
    UserQueries \cup
    {marker(n) \o b : n \in AgentNames,
                      b \in {" 12 sources polled",
                             " analysis incomplete, full forecast pending"}}

\* The last turns given to should_terminate.
TerminatorContents ==
    {"hello there", "Analysis complete"} \cup
    {marker(n) \o b : n \in {"DATA_COLLECTION_AGENT", "REPORTING_AGENT"}, b \in AgentBodies}

EarlierTurns == {"predict next month", "DATA_COLLECTION_AGENT > 12 sources polled"}

\* The turns of a history before its last turn.
Prefixes == UNION {[1..n -> EarlierTurns] : n \in 0..MaxEarlier}

HistoriesOf(contents) == {<<>>} \cup {p \o <<c>> : p \in Prefixes, c \in contents}

Last(hist) == hist[Len(hist)]

-----------------------------------------------------------------------------
(* Calls of the Selector alone *)

SelectorInit ==
    /\ agents \in Registries
    /\ history = <<>>
    /\ agent_sequence = <<>>
    /\ selected = None
    /\ prev_sequence = <<>>
    /\ iteration_count = 0
    /\ max_iterations = DefaultMaxIterations
    /\ acting = None
    /\ terminate = FALSE
    /\ calls = 0
    /\ op = "init"
    /\ pc = "idle"
    /\ turns = 0
    /\ fresh = TRUE
    /\ invoked = <<>>
    /\ NoSessions

\* next(agents, hist)
SelectorNext(hist) ==
    LET o == next(agents, hist, agent_sequence) IN
    /\ history' = hist
    /\ prev_sequence' = agent_sequence
    /\ agent_sequence' = o.agent_sequence
    /\ selected' = o.ret
    /\ op' = "next"
    /\ UNCHANGED <<agents, sessionVars, terminatorVars, driverVars>>

SelectorStep == \E hist \in HistoriesOf(SelectorContents) : SelectorNext(hist)

SelectorSpec == SelectorInit /\ [][SelectorStep]_vars

-----------------------------------------------------------------------------
(* Calls of the Terminator alone *)

MaxIterationsValues == {1, 3, DefaultMaxIterations}

TerminatorInit ==
    /\ agents = AgentNames
    /\ history = <<>>
    /\ agent_sequence = <<>>
    /\ selected = None
    /\ prev_sequence = <<>>
    /\ iteration_count = 0
    /\ max_iterations \in MaxIterationsValues
    /\ acting = None
    /\ terminate = FALSE
    /\ calls = 0
    /\ op = "init"
    /\ pc = "idle"
    /\ turns = 0
    /\ fresh = TRUE
    /\ invoked = <<>>
    /\ NoSessions

\* should_terminate(agent, hist)
ShouldTerminate(agent, hist) ==
    LET t == should_terminate(agent, hist, iteration_count, max_iterations) IN
    /\ iteration_count < max_iterations + MaxExtraCalls
    /\ history' = hist
    /\ acting' = agent
    /\ iteration_count' = t.iteration_count
    /\ terminate' = t.ret
    /\ calls' = calls + 1
    /\ op' = "should_terminate"
    /\ UNCHANGED <<agents, sessionVars, max_iterations, selectorVars, driverVars>>

\* reset()
Reset ==
    /\ iteration_count' = reset(iteration_count)
    /\ calls' = 0
    /\ op' = "reset"
    /\ UNCHANGED <<agents, sessionVars, history, max_iterations, acting, terminate, selectorVars, driverVars>>

TerminatorStep ==
    \/ \E agent \in agents, hist \in HistoriesOf(TerminatorContents) : ShouldTerminate(agent, hist)
    \/ Reset

TerminatorSpec == TerminatorInit /\ [][TerminatorStep]_vars

-----------------------------------------------------------------------------
(* The driver loop: next, the selected agent's turn appended to history,   *)
(* should_terminate, again while it returns False.  The loop also ends     *)
(* when next returns None.                                                 *)

\* The largest max_iterations the driver's Terminator is built with.
MaxDriverIterations == 3
\* A follow-up query is appended only to a history shorter than this.
MaxHistory == 3

DriverRegistries == {AgentNames, AgentNames \ {"PREDICTION_AGENT"}}

DriverQueries == {"hello there", "monitor and alert", "predict next month",
                  "COMPLETE FORECAST", "any unusual spike?", "send an urgent alert"}

\* What the agents say after their marker in the loop.
DriverBodies == {" 12 sources polled", " Report ID: 42"}

\* Turns of an agent that does not start its content with its own marker.
UnmarkedTurns == {"predict next month", "DATA_COLLECTION_AGENT > 12 sources polled"}

\* The contents the agent named `agent` may produce.
AgentSays(agent) == {marker(agent) \o b : b \in DriverBodies} \cup UnmarkedTurns

Init ==
    /\ agents \in DriverRegistries
    /\ history = <<>>
    /\ agent_sequence = <<>>
    /\ selected = None
    /\ prev_sequence = <<>>
    /\ iteration_count = 0
    /\ max_iterations \in (1..MaxDriverIterations) \cup {DefaultMaxIterations}
    /\ acting = None
    /\ terminate = FALSE
    /\ calls = 0
    /\ op = "init"
    /\ pc = "idle"
    /\ turns = 0
    /\ fresh = TRUE
    /\ invoked = <<>>
    /\ NoSessions

\* A new conversation: a new history holding the user's query; the session's
\* Selector and Terminator are reused, the Terminator after reset().
StartConversation(query) ==
    /\ pc \in {"idle", "done"}
    /\ history' = <<query>>
    /\ iteration_count' = reset(iteration_count)
    /\ calls' = 0
    /\ op' = "reset"
    /\ pc' = "select"
    /\ turns' = 0
    /\ fresh' = TRUE
    /\ invoked' = <<>>
    /\ UNCHANGED <<agents, sessionVars, max_iterations, acting, terminate, selectorVars>>

\* A further query of the user in the same conversation, without reset().
FollowUp(query) ==
    /\ pc = "done"
    /\ Len(history) < MaxHistory
    /\ history' = Append(history, query)
    /\ op' = "append"
    /\ pc' = "select"
    /\ turns' = 0
    /\ fresh' = (iteration_count = 0)
    /\ invoked' = <<>>
    /\ UNCHANGED <<agents, sessionVars, terminatorVars, selectorVars>>

\* The loop asks the Selector for the next agent.
Select ==
    LET o == next(agents, history, agent_sequence) IN
    /\ pc = "select"
    /\ prev_sequence' = agent_sequence
    /\ agent_sequence' = o.agent_sequence
    /\ selected' = o.ret
    /\ op' = "next"
    /\ pc' = IF o.ret = None THEN "done" ELSE "invoke"
    /\ UNCHANGED <<agents, sessionVars, history, terminatorVars, turns, fresh, invoked>>

\* The selected agent produces one turn, which is appended to the history.
Invoke(content) ==
    /\ pc = "invoke"
    /\ history' = Append(history, content)
    /\ op' = "append"
    /\ pc' = "check"
    /\ turns' = turns + 1
    /\ invoked' = Append(invoked, selected)
    /\ UNCHANGED <<agents, sessionVars, terminatorVars, selectorVars, fresh>>

\* The loop asks the Terminator whether to stop.
Check ==
    LET t == should_terminate(selected, history, iteration_count, max_iterations) IN
    /\ pc = "check"
    /\ acting' = selected
    /\ iteration_count' = t.iteration_count
    /\ terminate' = t.ret
    /\ calls' = calls + 1
    /\ op' = "should_terminate"
    /\ pc' = IF t.ret THEN "done" ELSE "select"
    /\ UNCHANGED <<agents, sessionVars, history, max_iterations, selectorVars, turns, fresh, invoked>>

Next ==
    \/ \E query \in DriverQueries : StartConversation(query)
    \/ \E query \in DriverQueries : FollowUp(query)
    \/ Select
    \/ \E content \in AgentSays(selected) : Invoke(content)
    \/ Check

Spec == Init /\ [][Next]_vars

-----------------------------------------------------------------------------
(* Two sessions, each with the Selector, the Terminator and the history    *)
(* constructed for it, making their calls in any order.                    *)

Sessions == {1, 2}

\* A session's history grows to at most this many turns.
MaxSessionTurns == 2
\* A session's Terminator is called at most this many times between resets.
MaxSessionCalls == 2

\* The turns appended to a session's history.
SessionContents == {"predict next month", "DATA_COLLECTION_AGENT > 12 sources polled"}

\* The agent argument of a session's should_terminate calls.
SessionAgents == {"DATA_COLLECTION_AGENT", "ASSISTANT_AGENT"}

\* agent_sequence held by the class, one list for every Selector.
agent_sequence_of_class(session) == 1

\* self.agent_sequence: set in __init__ on the object constructed for the session,
\* so each session's Selector holds its own.
agent_sequence_of(session) == session

\* self.iteration_count: set in __init__ on the object constructed for the session.
iteration_count_of(session) == session

\* The variables of the one-session specifications.
singleVars == <<history, agent_sequence, selected, iteration_count, acting, terminate,
                prev_sequence, calls, pc, turns, fresh, invoked>>

SessionsInit ==
    /\ agents = AgentNames
    /\ max_iterations = 2
    /\ history = <<>>
    /\ agent_sequence = <<>>
    /\ selected = None
    /\ prev_sequence = <<>>
    /\ iteration_count = 0
    /\ acting = None
    /\ terminate = FALSE
    /\ calls = 0
    /\ op = "init"
    /\ pc = "idle"
    /\ turns = 0
    /\ fresh = TRUE
    /\ invoked = <<>>
    /\ histories = [s \in Sessions |-> <<>>]
    /\ selectors = [s \in Sessions |-> <<>>]
    /\ terminators = [s \in Sessions |-> 0]
    /\ returned = [s \in Sessions |-> [selected |-> None, terminate |-> FALSE]]
    /\ alone = [s \in Sessions |-> [agent_sequence |-> <<>>, iteration_count |-> 0,
                                    selected |-> None, terminate |-> FALSE]]
    /\ caller = 0

\* A turn is appended to the history of session s.
SessionAppend(s, content) ==
    /\ Len(histories[s]) < MaxSessionTurns
    /\ histories' = [histories EXCEPT ![s] = Append(@, content)]
    /\ op' = "append"
    /\ caller' = s
    /\ UNCHANGED <<agents, max_iterations, singleVars, selectors, terminators,
                   returned, alone>>

\* next consuming the last turn (history.pop()) where the code reads history[-1].
SessionNext_consuming(s) ==
    LET self == agent_sequence_of(s)
        o == next(agents, histories[s], selectors[self])
        run_alone == next(agents, histories[s], alone[s].agent_sequence)
    IN  /\ selectors' = [selectors EXCEPT ![self] = o.agent_sequence]
        /\ returned' = [returned EXCEPT ![s].selected = o.ret]
        /\ alone' = [alone EXCEPT ![s].agent_sequence = run_alone.agent_sequence,
                                  ![s].selected = run_alone.ret]
        /\ histories' = [histories EXCEPT ![s] =
                             IF @ = <<>> THEN @ ELSE SubSeq(@, 1, Len(@) - 1)]
        /\ op' = "next"
        /\ caller' = s
        /\ UNCHANGED <<agents, max_iterations, singleVars, terminators>>

\* Session s calls next(agents, history) on its Selector.
SessionNext(s) ==
    LET self == agent_sequence_of(s)
        o == next(agents, histories[s], selectors[self])
        run_alone == next(agents, histories[s], alone[s].agent_sequence)
    IN  /\ selectors' = [selectors EXCEPT ![self] = o.agent_sequence]
        /\ returned' = [returned EXCEPT ![s].selected = o.ret]
        /\ alone' = [alone EXCEPT ![s].agent_sequence = run_alone.agent_sequence,
                                  ![s].selected = run_alone.ret]
        /\ op' = "next"
        /\ caller' = s
        /\ UNCHANGED <<agents, max_iterations, singleVars, histories, terminators>>

\* Session s calls should_terminate(agent, history) on its Terminator.
SessionShouldTerminate(s, agent) ==
    LET self == iteration_count_of(s)
        t == should_terminate(agent, histories[s], terminators[self], max_iterations)
        run_alone == should_terminate(agent, histories[s], alone[s].iteration_count,
                                      max_iterations)
    IN  /\ terminators[self] < MaxSessionCalls
        /\ terminators' = [terminators EXCEPT ![self] = t.iteration_count]
        /\ returned' = [returned EXCEPT ![s].terminate = t.ret]
        /\ alone' = [alone EXCEPT ![s].iteration_count = run_alone.iteration_count,
                                  ![s].terminate = run_alone.ret]
        /\ op' = "should_terminate"
        /\ caller' = s
        /\ UNCHANGED <<agents, max_iterations, singleVars, histories, selectors>>

\* Session s calls reset() on its Terminator.
SessionReset(s) ==
    LET self == iteration_count_of(s) IN
    /\ terminators' = [terminators EXCEPT ![self] = reset(@)]
    /\ alone' = [alone EXCEPT ![s].iteration_count = reset(@)]
    /\ op' = "reset"
    /\ caller' = s
    /\ UNCHANGED <<agents, max_iterations, singleVars, histories, selectors, returned>>

SessionsStep ==
    \/ \E s \in Sessions, content \in SessionContents : SessionAppend(s, content)
    \/ \E s \in Sessions : SessionNext(s)
    \/ \E s \in Sessions, agent \in SessionAgents : SessionShouldTerminate(s, agent)
    \/ \E s \in Sessions : SessionReset(s)

SessionsSpec == SessionsInit /\ [][SessionsStep]_vars

-----------------------------------------------------------------------------
(* Properties *)

\* The sequences _route_initial_query can store.
Pipelines == {comprehensive_sequence, prediction_sequence, anomaly_sequence,
              data_sequence, alert_sequence}

\* Every element of the list is the name of an agent of the set.
AllIn(seq, agent_set) == \A i \in 1..Len(seq) : seq[i] \in agent_set

\* The content starts with the marker of an agent of the set.
AgentAuthored(content, agent_set) ==
    \E name \in agent_set : startswith(content, marker(name))

\* The claims' completion phrases.
CompletionPhrases == {"report generated successfully", "analysis complete",
                      "assessment complete", "download url", "report id"}

\* The content holds a completion phrase, whatever the case of its letters.
HasCompletionPhrase(content) == any_in(CompletionPhrases, lower(content))

\* The last call was next, with a history that is not empty.
NextOnTurn == op = "next" /\ history # <<>>

\* C1: with a Pipeline P stored and all its agents in the agents list, next on a
\* history whose last turn starts with the marker of P[i] returns P[i+1] when P[i]
\* is not the last element of P, and None when it is the last.
C1_PipelineTraversal ==
    (NextOnTurn /\ prev_sequence \in Pipelines /\ AllIn(prev_sequence, agents)) =>
        \A i \in 1..Len(prev_sequence) :
            startswith(Last(history), marker(prev_sequence[i])) =>
                selected = IF i < Len(prev_sequence) THEN prev_sequence[i + 1] ELSE None

C1_Witness ==
    /\ NextOnTurn
    /\ Len(history) = 2
    /\ prev_sequence = prediction_sequence
    /\ agents = AgentNames \ {"ALERT_AGENT"}
    /\ startswith(Last(history), marker("ANOMALY_DETECTION_AGENT"))
    /\ selected = "PREDICTION_AGENT"

\* C2: in a driver loop started with a new or reset Terminator (max_iterations >= 1),
\* whatever the agents say and whatever Pipeline is stored, should_terminate returns
\* True at its max_iterations-th call at the latest, so the loop never produces more
\* than max_iterations agent turns.
C2_LoopHalts ==
    fresh =>
        /\ turns <= max_iterations
        /\ calls <= max_iterations
        /\ (op = "should_terminate" /\ calls >= max_iterations) =>
               (terminate /\ pc = "done")

C2_Witness ==
    /\ fresh
    /\ op = "should_terminate"
    /\ max_iterations = MaxDriverIterations
    /\ turns = max_iterations
    /\ calls = max_iterations
    /\ acting \notin terminal_agents
    /\ ~HasCompletionPhrase(Last(history))
    /\ history[1] = "monitor and alert"
    /\ terminate
    /\ pc = "done"

\* C3: a call of should_terminate whose agent is neither REPORTING_AGENT nor
\* ASSISTANT_AGENT and whose last turn holds no completion phrase returns True
\* exactly when it is at least the max_iterations-th call since construction or
\* reset().
C3_CapIsExact ==
    (/\ op = "should_terminate"
     /\ acting \notin {"REPORTING_AGENT", "ASSISTANT_AGENT"}
     /\ (history = <<>> \/ ~HasCompletionPhrase(Last(history))))
    => (terminate <=> calls >= max_iterations)

C3_Witness ==
    /\ op = "should_terminate"
    /\ max_iterations = DefaultMaxIterations
    /\ calls = DefaultMaxIterations
    /\ acting = "DATA_COLLECTION_AGENT"
    /\ history = <<"DATA_COLLECTION_AGENT > 12 sources polled">>
    /\ terminate

\* C4: a call of should_terminate whose agent is REPORTING_AGENT or ASSISTANT_AGENT
\* returns True, for every counter value, every history and the empty history.
C4_TerminalRole ==
    (op = "should_terminate" /\ acting \in {"REPORTING_AGENT", "ASSISTANT_AGENT"})
    => terminate

C4_Witness ==
    /\ op = "should_terminate"
    /\ max_iterations = DefaultMaxIterations
    /\ calls = 1
    /\ iteration_count = 1
    /\ acting = "ASSISTANT_AGENT"
    /\ history = <<>>
    /\ terminate

\* C5: a call of should_terminate whose last turn holds a completion phrase, in any
\* case of its letters, returns True, also for an agent that is not terminal and a
\* counter below the cap.
C5_CompletionPhrase ==
    (op = "should_terminate" /\ history # <<>> /\ HasCompletionPhrase(Last(history)))
    => terminate

C5_Witness ==
    /\ op = "should_terminate"
    /\ max_iterations = DefaultMaxIterations
    /\ calls = 1
    /\ acting = "DATA_COLLECTION_AGENT"
    /\ history # <<>>
    /\ Last(history) = "DATA_COLLECTION_AGENT > Report generated successfully. Download URL: http://x/r1"
    /\ terminate

\* The last call was next, on a last turn that does not start with the marker of
\* an agent of the agents list (a user-authored turn).
NextOnUserTurn == NextOnTurn /\ ~AgentAuthored(Last(history), agents)

\* The first category of the classification order the content matches, 6 when it
\* matches none.
Category(content) ==
    LET q == lower(content) IN
    IF any_in({"full", "complete", "comprehensive", "all"}, q)
       /\ (any_in(prediction_keywords, q) \/ any_in(report_keywords, q)) THEN 1
    ELSE IF any_in(prediction_keywords, q) THEN 2
    ELSE IF any_in(anomaly_keywords, q) THEN 3
    ELSE IF any_in(data_keywords, q) THEN 4
    ELSE IF any_in(alert_keywords, q) THEN 5
    ELSE 6

\* The Pipeline of each category.
CategoryPipeline ==
    <<  <<"DATA_COLLECTION_AGENT", "ANOMALY_DETECTION_AGENT", "PREDICTION_AGENT",
          "ALERT_AGENT", "REPORTING_AGENT">>,
        <<"DATA_COLLECTION_AGENT", "ANOMALY_DETECTION_AGENT", "PREDICTION_AGENT",
          "REPORTING_AGENT">>,
        <<"DATA_COLLECTION_AGENT", "ANOMALY_DETECTION_AGENT", "REPORTING_AGENT">>,
        <<"DATA_COLLECTION_AGENT", "REPORTING_AGENT">>,
        <<"DATA_COLLECTION_AGENT", "ANOMALY_DETECTION_AGENT", "PREDICTION_AGENT",
          "ALERT_AGENT", "REPORTING_AGENT">> >>

\* C6: next on a user-authored last turn whose lowercased content holds a breadth
\* qualifier and a forecasting keyword stores the 5-stage sequence, whatever was
\* stored before, and returns DATA_COLLECTION_AGENT (an agent of the agents list).
C6_Comprehensive ==
    (/\ NextOnUserTurn
     /\ any_in({"full", "complete", "comprehensive", "all"}, lower(Last(history)))
     /\ any_in(prediction_keywords, lower(Last(history))))
    => /\ agent_sequence = CategoryPipeline[1]
       /\ "DATA_COLLECTION_AGENT" \in agents => selected = "DATA_COLLECTION_AGENT"

C6_Witness ==
    /\ NextOnUserTurn
    /\ Last(history) = "COMPLETE FORECAST"
    /\ prev_sequence = data_sequence
    /\ agent_sequence = comprehensive_sequence
    /\ selected = "DATA_COLLECTION_AGENT"

\* C7: next on a user-authored last turn that matches no keyword category returns
\* ASSISTANT_AGENT (an agent of the agents list) and leaves no Pipeline stored,
\* also when an earlier query stored one.
C7_FallbackStoresNoPipeline ==
    (NextOnUserTurn /\ Category(Last(history)) = 6 /\ "ASSISTANT_AGENT" \in agents)
    => (selected = "ASSISTANT_AGENT" /\ agent_sequence = <<>>)

\* C8: next on a user-authored last turn stores the Pipeline of the first category
\* the content matches and returns DATA_COLLECTION_AGENT; when no category matches
\* it returns ASSISTANT_AGENT (the agent returned being in the agents list).
C8_ClassificationPriority ==
    NextOnUserTurn =>
        LET k == Category(Last(history)) IN
        IF k <= 5
        THEN /\ agent_sequence = CategoryPipeline[k]
             /\ "DATA_COLLECTION_AGENT" \in agents => selected = "DATA_COLLECTION_AGENT"
        ELSE "ASSISTANT_AGENT" \in agents => selected = "ASSISTANT_AGENT"

C8_Witness ==
    /\ NextOnUserTurn
    /\ Last(history) = "monitor and alert"
    /\ prev_sequence = comprehensive_sequence
    /\ agent_sequence = data_sequence
    /\ selected = "DATA_COLLECTION_AGENT"

\* C9: next on an agent-authored last turn whose agent is not in the stored
\* Pipeline, or with no Pipeline stored, returns None and leaves the stored
\* Pipeline as it was.
C9_InconsistentPipeline ==
    NextOnTurn =>
        \A name \in agents :
            (/\ startswith(Last(history), marker(name))
             /\ (prev_sequence = <<>> \/ \A i \in 1..Len(prev_sequence) :
                                            prev_sequence[i] # name))
            => (selected = None /\ agent_sequence = prev_sequence)

C9_Witness ==
    /\ NextOnTurn
    /\ agents = AgentNames
    /\ startswith(Last(history), marker("ALERT_AGENT"))
    /\ prev_sequence = data_sequence
    /\ agent_sequence = data_sequence
    /\ selected = None

\* C10: next on an empty history returns None and leaves the stored Pipeline as it
\* was, for every agents list and every stored Pipeline.
C10_EmptyHistory ==
    (op = "next" /\ history = <<>>)
    => (selected = None /\ agent_sequence = prev_sequence)

C10_Witness ==
    /\ op = "next"
    /\ history = <<>>
    /\ agents = {}
    /\ prev_sequence = prediction_sequence
    /\ agent_sequence = prediction_sequence
    /\ selected = None

C12_TurnCounter == iteration_count = calls

C12_Witness ==
    /\ op = "should_terminate"
    /\ terminate
    /\ max_iterations = 3
    /\ calls = 5
    /\ iteration_count = 5

\* C13: reset() sets iteration_count to 0 and leaves max_iterations as it is, in
\* every state, also after the cap was reached: the Terminator is then in the
\* state of a new Terminator with the same max_iterations.
C13_Reset ==
    [][op' = "reset" =>
          (iteration_count' = 0 /\ max_iterations' = max_iterations)]_vars

C13_Witness ==
    /\ op = "reset"
    /\ iteration_count = 0
    /\ max_iterations = 3
    /\ terminate
    /\ acting = "DATA_COLLECTION_AGENT"
    /\ history = <<"DATA_COLLECTION_AGENT > 12 sources polled">>

\* C14 as claimed: a call of should_terminate that follows, without reset(), a call
\* that returned True returns True.
C14_TerminatedAbsorbing ==
    [][(op = "should_terminate" /\ terminate /\ op' = "should_terminate")
          => terminate']_vars

\* C14 as amended: a call of should_terminate that follows, without reset(), a call
\* at which the counter had reached max_iterations returns True.
C14_CapAbsorbing ==
    [][(/\ op = "should_terminate"
        /\ iteration_count >= max_iterations
        /\ op' = "should_terminate")
          => terminate']_vars

C14_Witness ==
    /\ op = "should_terminate"
    /\ max_iterations = 3
    /\ calls = 5
    /\ acting = "DATA_COLLECTION_AGENT"
    /\ history = <<"DATA_COLLECTION_AGENT > 12 sources polled">>
    /\ terminate

\* The agent the agents list gives for the name, None when it has none.
Resolved(name, agent_set) == IF name \in agent_set THEN name ELSE None

\* The element after name in the list, resolved in the agents list; None when name
\* is the last element or not in the list.
Successor(seq, name, agent_set) ==
    IF \E i \in 1..(Len(seq) - 1) : seq[i] = name
    THEN Resolved(seq[(CHOOSE i \in 1..(Len(seq) - 1) : seq[i] = name) + 1], agent_set)
    ELSE None

\* C15: next on an empty history, or on a last turn that starts with the marker of
\* an agent of the agents list, leaves agent_sequence as it was, whatever it
\* returns (the next agent, None at the end of the Pipeline, None for an agent that
\* is not in the Pipeline).
C15_PipelineKept ==
    (op = "next" /\ (history = <<>> \/ AgentAuthored(Last(history), agents))) =>
        agent_sequence = prev_sequence

C15_Witness ==
    /\ op = "next"
    /\ agents = AgentNames
    /\ history # <<>>
    /\ Last(history) = "REPORTING_AGENT > 12 sources polled"
    /\ prev_sequence = data_sequence
    /\ agent_sequence = data_sequence
    /\ selected = None

\* The names a marker can hold that the agents list does not resolve.
UnknownNames == (AgentNames \cup {"TRIAGE_AGENT"}) \ agents

\* C16 as claimed: when the last turn starts with the marker "<name> >" of a name
\* that is not in the agents list, next returns None.
C16_UnknownMarkerStops ==
    (NextOnTurn /\ \E name \in UnknownNames : startswith(Last(history), marker(name)))
        => selected = None

\* C17: when the agent next would return is not in the agents list (the element
\* after the current agent in the Pipeline, DATA_COLLECTION_AGENT for a classified
\* query, ASSISTANT_AGENT for the fallback), next returns None and no later element
\* of the Pipeline.
C17_UnresolvedReference ==
    NextOnTurn =>
        /\ \A name \in agents :
              \A i \in 1..(Len(prev_sequence) - 1) :
                 (/\ startswith(Last(history), marker(name))
                  /\ prev_sequence[i] = name
                  /\ prev_sequence[i + 1] \notin agents) => selected = None
        /\ (/\ ~AgentAuthored(Last(history), agents)
            /\ Category(Last(history)) <= 5
            /\ "DATA_COLLECTION_AGENT" \notin agents) => selected = None
        /\ (/\ ~AgentAuthored(Last(history), agents)
            /\ Category(Last(history)) = 6
            /\ "ASSISTANT_AGENT" \notin agents) => selected = None

C17_Witness ==
    /\ op = "next"
    /\ agents = AgentNames \ {"ANOMALY_DETECTION_AGENT"}
    /\ history # <<>>
    /\ Last(history) = "DATA_COLLECTION_AGENT > 12 sources polled"
    /\ prev_sequence = prediction_sequence
    /\ selected = None

\* C18: next treats the last turn as agent-authored exactly when its content
\* starts with the marker of an agent of the agents list: it then goes on in the
\* stored Pipeline and keeps it. Every other content, also one that names an agent
\* further on, is classified as a new query: the agent and the Pipeline are those
\* of its category.
C18_Authorship ==
    NextOnTurn =>
        IF AgentAuthored(Last(history), agents)
        THEN /\ agent_sequence = prev_sequence
             /\ \A name \in agents :
                   startswith(Last(history), marker(name)) =>
                       selected = Successor(prev_sequence, name, agents)
        ELSE LET k == Category(Last(history)) IN
             IF k <= 5
             THEN /\ selected = Resolved("DATA_COLLECTION_AGENT", agents)
                  /\ agent_sequence = CategoryPipeline[k]
             ELSE selected = Resolved("ASSISTANT_AGENT", agents)

C18_Witness ==
    /\ op = "next"
    /\ agents = AgentNames
    /\ history # <<>>
    /\ Last(history) = "ask REPORTING_AGENT > for it"
    /\ prev_sequence = prediction_sequence
    /\ selected = "ASSISTANT_AGENT"

\* C19: agent_sequence is empty, or a list of agent names without repetition that
\* starts with DATA_COLLECTION_AGENT, ends with REPORTING_AGENT and does not hold
\* ASSISTANT_AGENT.
C19_PipelineWellFormed ==
    \/ agent_sequence = <<>>
    \/ /\ AllIn(agent_sequence, AgentNames)
       /\ \A i, j \in 1..Len(agent_sequence) :
             agent_sequence[i] = agent_sequence[j] => i = j
       /\ agent_sequence[1] = "DATA_COLLECTION_AGENT"
       /\ agent_sequence[Len(agent_sequence)] = "REPORTING_AGENT"
       /\ ~in_list(agent_sequence, "ASSISTANT_AGENT")

C19_Witness ==
    /\ op = "next"
    /\ history # <<>>
    /\ Last(history) = "hello there"
    /\ selected = "ASSISTANT_AGENT"
    /\ agent_sequence = comprehensive_sequence

\* C20 as claimed: next on a user-authored last turn gives the same agent and
\* leaves the same agent_sequence as a Selector with the same agents list, any
\* other stored Pipeline and any other earlier turns does on that last turn.
C20_ClassificationPure ==
    NextOnUserTurn =>
        \A other \in Pipelines \cup {<<>>} :
            \A earlier \in Prefixes :
                next(agents, earlier \o <<Last(history)>>, other)
                    = Out(selected, agent_sequence)

\* The user query the driver loop is answering: the turn before the turns of the
\* agents invoked since.
Query == history[Len(history) - Len(invoked)]

\* The driver loop is answering a query.
Answering == pc # "idle" /\ Len(history) > Len(invoked)

\* Every agent invoked since the query started its turn with its own marker and
\* wrote no completion phrase.
WellBehaved ==
    \A i \in 1..Len(invoked) :
        LET turn == history[Len(history) - Len(invoked) + i] IN
        startswith(turn, marker(invoked[i])) /\ ~HasCompletionPhrase(turn)

Min(a, b) == IF a <= b THEN a ELSE b

\* C23: in the driver loop, with every agent in the agents list, a new or reset
\* Terminator and agents that start their turns with their own marker and write no
\* completion phrase, the agents invoked after a query of category 1-5 are the
\* first elements of its Pipeline P, in order; when the loop has ended they are the
\* first min(len(P), max_iterations) of them and should_terminate has returned
\* True, so with max_iterations >= len(P) the loop ends after REPORTING_AGENT.
C23_PipelineOrder ==
    (/\ Answering
     /\ agents = AgentNames
     /\ fresh
     /\ WellBehaved
     /\ Category(Query) <= 5) =>
        LET P == CategoryPipeline[Category(Query)] IN
        /\ Len(invoked) <= Min(Len(P), max_iterations)
        /\ \A i \in 1..Len(invoked) : invoked[i] = P[i]
        /\ pc = "done" =>
              /\ Len(invoked) = Min(Len(P), max_iterations)
              /\ op = "should_terminate"
              /\ terminate
              /\ max_iterations >= Len(P) => acting = "REPORTING_AGENT"

C23_Witness ==
    /\ pc = "done"
    /\ agents = AgentNames
    /\ fresh
    /\ WellBehaved
    /\ max_iterations = DefaultMaxIterations
    /\ history[1] = "COMPLETE FORECAST"
    /\ invoked = comprehensive_sequence
    /\ iteration_count = 5
    /\ terminate

\* C24: in the driver loop, with every agent in the agents list, after a query of
\* no category ASSISTANT_AGENT is the only agent invoked, and the loop ends with
\* the should_terminate call after its turn, whatever the counter and whatever
\* the turn holds.
C24_FallbackSingleTurn ==
    (Answering /\ agents = AgentNames /\ Category(Query) = 6) =>
        /\ Len(invoked) <= 1
        /\ \A i \in 1..Len(invoked) : invoked[i] = "ASSISTANT_AGENT"
        /\ pc = "select" => invoked = <<>>
        /\ pc = "done" =>
              /\ invoked = <<"ASSISTANT_AGENT">>
              /\ op = "should_terminate"
              /\ terminate

C24_Witness ==
    /\ pc = "done"
    /\ agents = AgentNames
    /\ max_iterations = DefaultMaxIterations
    /\ ~fresh
    /\ iteration_count = 2
    /\ history = <<"hello there", "ASSISTANT_AGENT > 12 sources polled",
                   "hello there", "predict next month">>
    /\ invoked = <<"ASSISTANT_AGENT">>
    /\ terminate

\* C25: a further query and the next call that follows it leave iteration_count
\* as it is, so the counter goes on over the queries of a conversation; once it
\* has reached max_iterations, every should_terminate call made without reset()
\* returns True and ends the loop at the first agent turn of its query.
C25_CapAcrossQueries ==
    [][/\ op' \in {"append", "next"} => iteration_count' = iteration_count
       /\ (op' = "should_terminate" /\ iteration_count >= max_iterations) =>
             (terminate' /\ turns' = 1 /\ pc' = "done")]_vars

\* A later query's Pipeline is ended by the cap before REPORTING_AGENT has acted.
C25_Witness ==
    /\ pc = "done"
    /\ op = "should_terminate"
    /\ agents = AgentNames
    /\ ~fresh
    /\ max_iterations = 2
    /\ iteration_count = 2
    /\ history = <<"hello there", "ASSISTANT_AGENT > 12 sources polled",
                   "predict next month", "DATA_COLLECTION_AGENT > 12 sources polled">>
    /\ agent_sequence = prediction_sequence
    /\ invoked = <<"DATA_COLLECTION_AGENT">>
    /\ terminate

\* C26: on a last turn that starts with the marker of an agent of the agents list,
\* next gives the same agent and leaves the same agent_sequence whatever the turns
\* before the last one are; a turn of P[i], also a repeated or a late one, gives
\* P[i+1] when the agents list holds it.
C26_PositionNotStored ==
    (NextOnTurn /\ AgentAuthored(Last(history), agents)) =>
        /\ \A earlier \in Prefixes :
              next(agents, earlier \o <<Last(history)>>, prev_sequence)
                  = Out(selected, agent_sequence)
        /\ \A i \in 1..(Len(prev_sequence) - 1) :
              (/\ startswith(Last(history), marker(prev_sequence[i]))
               /\ prev_sequence[i + 1] \in agents) => selected = prev_sequence[i + 1]

C26_Witness ==
    /\ op = "next"
    /\ agents = AgentNames
    /\ history = <<"DATA_COLLECTION_AGENT > 12 sources polled",
                   "DATA_COLLECTION_AGENT > 12 sources polled">>
    /\ prev_sequence = prediction_sequence
    /\ selected = "ANOMALY_DETECTION_AGENT"

\* C27: next returns None or an agent of the agents list it was given; an agent
\* returned on an agent-authored last turn is the element of the stored Pipeline
\* right after the first occurrence of the agent that wrote the turn.
C27_OnlyRegisteredAgents ==
    op = "next" =>
        /\ selected \in agents \cup {None}
        /\ (/\ history # <<>>
            /\ AgentAuthored(Last(history), agents)
            /\ selected # None) =>
               \E name \in agents :
                  \E i \in 1..(Len(prev_sequence) - 1) :
                     /\ startswith(Last(history), marker(name))
                     /\ prev_sequence[i] = name
                     /\ \A j \in 1..(i - 1) : prev_sequence[j] # name
                     /\ selected = prev_sequence[i + 1]

C27_Witness ==
    /\ op = "next"
    /\ agents = AgentNames \ {"PREDICTION_AGENT"}
    /\ history # <<>>
    /\ Last(history) = "DATA_COLLECTION_AGENT > 12 sources polled"
    /\ prev_sequence = prediction_sequence
    /\ selected = "ANOMALY_DETECTION_AGENT"

\* C21: no call of next, should_terminate or reset changes a history; next leaves
\* every Terminator's counter as it is; should_terminate and reset leave every
\* stored Pipeline as it is.
C21_ReadOnlyAndIsolated ==
    [][/\ op' \in {"next", "should_terminate", "reset"} => histories' = histories
       /\ op' = "next" => terminators' = terminators
       /\ op' \in {"should_terminate", "reset"} => selectors' = selectors]_vars

C21_Witness ==
    /\ op = "should_terminate"
    /\ caller = 1
    /\ histories[1] = <<"predict next month", "DATA_COLLECTION_AGENT > 12 sources polled">>
    /\ selectors[agent_sequence_of(1)] = prediction_sequence
    /\ returned[1].selected = "ANOMALY_DETECTION_AGENT"
    /\ terminators[iteration_count_of(1)] = 2

\* What session s holds and what its last calls returned are what they are when
\* the session runs alone.
AsAlone(s) ==
    /\ selectors[agent_sequence_of(s)] = alone[s].agent_sequence
    /\ terminators[iteration_count_of(s)] = alone[s].iteration_count
    /\ returned[s].selected = alone[s].selected
    /\ returned[s].terminate = alone[s].terminate

\* C22: with two sessions making their calls in any order, after every step each
\* session's stored Pipeline, counter and returned values are those of the session
\* run alone, and the step of one session leaves the other session's Pipeline,
\* counter and history as they were.
C22_SessionIndependence ==
    [][/\ \A s \in Sessions : AsAlone(s)'
       /\ \A s \in Sessions \ {caller'} :
             /\ selectors'[agent_sequence_of(s)] = selectors[agent_sequence_of(s)]
             /\ terminators'[iteration_count_of(s)] = terminators[iteration_count_of(s)]
             /\ histories'[s] = histories[s]]_vars

C22_Witness ==
    /\ caller = 1
    /\ op = "next"
    /\ selectors[agent_sequence_of(1)] = prediction_sequence
    /\ terminators[iteration_count_of(1)] = 2
    /\ returned[1].selected = "ANOMALY_DETECTION_AGENT"
    /\ returned[1].terminate
    /\ histories[2] = <<"DATA_COLLECTION_AGENT > 12 sources polled">>
    /\ selectors[agent_sequence_of(2)] = <<>>
    /\ returned[2].selected = None
    /\ terminators[iteration_count_of(2)] = 1
    /\ ~returned[2].terminate

====
